---- MODULE Spec2Model ----
(***************************************************************************)
(* Model of bot/services/telemetr_search.py: the search pipeline           *)
(* search_telemetr (fetch pages per seed, normalise items, filter by       *)
(* views, local phrase matching, diagnostics) and its helper functions,    *)
(* and of the dialog of bot/entrypoints/commands.py that calls it.         *)
(*                                                                         *)
(* Text is modelled as a sequence of characters.  A character is a         *)
(* one-character string; two code points outside ASCII are written by      *)
(* their names: "U+00A0" (no-break space) and "U+0456" (the Cyrillic       *)
(* letter i used in Ukrainian and Belarusian).                             *)
(***************************************************************************)
EXTENDS Integers, Sequences, FiniteSets, TLC

(***************************************************************************)
(* Characters and the string functions of Python the code relies on.       *)
(***************************************************************************)
NBSP == "U+00A0"

CyrI == "U+0456"

Quote == "\""

\* str.isspace(): the characters str.strip() removes and the regex \s matches
IsSpace(c) == c \in {" ", "\n", NBSP}

\* the characters of the class [0-9] of the boundary pattern
IsAsciiDigit(c) == c \in {"0", "1", "2", "3", "5", "9"}

\* unicodedata.normalize("NFKC", s), one character at a time
NfkcChar(c) == IF c = NBSP THEN " " ELSE c

\* str.lower(), one character at a time
LowerChar(c) == IF c = "A" THEN "a" ELSE c

RECURSIVE LStrip(_)
LStrip(s) == IF s # <<>> /\ IsSpace(Head(s)) THEN LStrip(Tail(s)) ELSE s

RECURSIVE RStrip(_)
RStrip(s) ==
    IF s # <<>> /\ IsSpace(s[Len(s)]) THEN RStrip(SubSeq(s, 1, Len(s) - 1)) ELSE s

\* str.strip()
Strip(s) == RStrip(LStrip(s))

\* re.sub(r"\s+", " ", s): every run of whitespace becomes one space
RECURSIVE CollapseSpaces(_)
CollapseSpaces(s) ==
    IF s = <<>> THEN <<>>
    ELSE IF IsSpace(Head(s))
         THEN <<" ">> \o CollapseSpaces(LStrip(s))
         ELSE <<Head(s)>> \o CollapseSpaces(Tail(s))

\* "\n".join(parts)
RECURSIVE JoinNL(_)
JoinNL(parts) ==
    IF parts = <<>> THEN <<>>
    ELSE IF Len(parts) = 1 THEN parts[1]
    ELSE parts[1] \o <<"\n">> \o JoinNL(Tail(parts))

\* s.startswith('"') and s.endswith('"')
IsQuoted(s) == s # <<>> /\ s[1] = Quote /\ s[Len(s)] = Quote

\* value of a decimal digit character
DigitVal(c) ==
    CASE c = "1" -> 1
      [] c = "2" -> 2
      [] c = "3" -> 3
      [] c = "5" -> 5
      [] c = "9" -> 9
      [] OTHER -> 0

\* digits with single underscores between them
RECURSIVE IsDigitString(_)
IsDigitString(s) ==
    /\ s # <<>>
    /\ IsAsciiDigit(s[1])
    /\ \/ Len(s) = 1
       \/ IsDigitString(Tail(s))
       \/ Len(s) >= 3 /\ s[2] = "_" /\ IsDigitString(SubSeq(s, 3, Len(s)))

IsSign(c) == c \in {"-", "+"}

\* int() accepts an optional sign followed by such digits
IsIntLiteral(s) ==
    /\ s # <<>>
    /\ IsDigitString(IF IsSign(s[1]) THEN Tail(s) ELSE s)

RECURSIVE DigitsValue(_)
DigitsValue(s) ==
    IF s = <<>> THEN 0
    ELSE IF s[Len(s)] = "_" THEN DigitsValue(SubSeq(s, 1, Len(s) - 1))
    ELSE 10 * DigitsValue(SubSeq(s, 1, Len(s) - 1)) + DigitVal(s[Len(s)])

\* the number a literal accepted by int() stands for
DecimalValue(s) ==
    IF s # <<>> /\ IsSign(s[1])
    THEN (IF s[1] = "-" THEN 0 - DigitsValue(Tail(s)) ELSE DigitsValue(Tail(s)))
    ELSE DigitsValue(s)

(***************************************************************************)
(* JSON values of an item's fields.  A field holds nothing (the key is     *)
(* missing or null), a string, an integer, or a value of another type      *)
(* (a non-empty list).                                                     *)
(***************************************************************************)
Nothing == [t |-> "none", s |-> <<>>, n |-> 0]

StrVal(s) == [t |-> "str", s |-> s, n |-> 0]

IntVal(n) == [t |-> "int", s |-> <<>>, n |-> n]

OtherValue == [t |-> "other", s |-> <<>>, n |-> 0]

\* Python truth value of a field, as used by `x or y`
Truthy(v) ==
    CASE v.t = "none" -> FALSE
      [] v.t = "str" -> v.s # <<>>
      [] v.t = "int" -> v.n # 0
      [] OTHER -> TRUE

\* `a or b`
Or(a, b) == IF Truthy(a) THEN a ELSE b

(***************************************************************************)
(* Raw items.  shape is "dict" (a non-empty mapping), "empty" (the mapping *)
(* {}), "str" (a bare string, kept in text) or "other" (a number, a list,  *)
(* null).                                                                  *)
(***************************************************************************)
Mapping(title, text, caption, views, views_count, display_url, url, link) ==
    [shape |-> "dict", title |-> title, text |-> text, caption |-> caption,
     views |-> views, views_count |-> views_count,
     display_url |-> display_url, url |-> url, link |-> link]

EmptyMapping ==
    [Mapping(Nothing, Nothing, Nothing, Nothing, Nothing, Nothing, Nothing, Nothing)
        EXCEPT !.shape = "empty"]

BareString(s) ==
    [Mapping(Nothing, StrVal(s), Nothing, Nothing, Nothing, Nothing, Nothing, Nothing)
        EXCEPT !.shape = "str"]

NotAnItem == [EmptyMapping EXCEPT !.shape = "other"]

_normalize_seed(seed, use_quotes) ==
    LET s == Strip(seed)
    IN  IF use_quotes /\ s # <<>> /\ ~IsQuoted(s) THEN <<Quote>> \o s \o <<Quote>> ELSE s

_as_dict(it) ==
    CASE it.shape = "dict" -> it
      [] it.shape = "empty" -> it
      [] it.shape = "str" -> [it EXCEPT !.shape = "dict"]
      [] OTHER -> EmptyMapping

\* `if not d`: only the empty mapping is false
IsEmptyDict(d) == d.shape = "empty"

TextKeys == <<"title", "text", "caption">>

\* (it.get(k) or "").strip() raises AttributeError on a true value that is no string
BodyRaises(it) == \E i \in 1..3 : Truthy(it[TextKeys[i]]) /\ it[TextKeys[i]].t # "str"

RECURSIVE BodyParts(_, _)
BodyParts(it, i) ==
    IF i > 3 THEN <<>>
    ELSE LET v == Strip(Or(it[TextKeys[i]], StrVal(<<>>)).s)
         IN  (IF v # <<>> THEN <<v>> ELSE <<>>) \o BodyParts(it, i + 1)

_body_from_item(it) == Strip(JoinNL(BodyParts(it, 1)))

\* int(v), with 0 for every value int() rejects
IntOrZero(v) ==
    CASE v.t = "int" -> v.n
      [] v.t = "str" -> IF IsIntLiteral(Strip(v.s)) THEN DecimalValue(Strip(v.s)) ELSE 0
      [] OTHER -> 0

_views_of(it) == IntOrZero(Or(Or(it.views, it.views_count), IntVal(0)))

_link_of(it) == Or(Or(Or(it.display_url, it.url), it.link), StrVal(<<>>))

(***************************************************************************)
(* Phrase matching.                                                        *)
(***************************************************************************)
RECURSIVE MapChars(_, _)
MapChars(s, i) ==
    IF i > Len(s) THEN <<>> ELSE <<LowerChar(NfkcChar(s[i]))>> \o MapChars(s, i + 1)

_norm_basic(s) == IF s = <<>> THEN <<>> ELSE Strip(CollapseSpaces(MapChars(s, 1)))

\* the class [0-9A-Za-zА-Яа-яЁё_] of the boundary pattern
InBoundaryClass(c) == IsAsciiDigit(c) \/ c \in {"a", "b", "c", "A", "_"}

\* n occurs in h at position i, with no character of the class next to it
OccursBoundedAt(n, h, i) ==
    /\ i + Len(n) - 1 <= Len(h)
    /\ SubSeq(h, i, i + Len(n) - 1) = n
    /\ (i > 1 => ~InBoundaryClass(h[i - 1]))
    /\ (i + Len(n) <= Len(h) => ~InBoundaryClass(h[i + Len(n)]))

_contains_exact_phrase_word_boundary(needle, haystack) ==
    LET n == _norm_basic(needle)
        h == _norm_basic(haystack)
    IN  /\ n # <<>>
        /\ h # <<>>
        /\ \E i \in 1..Len(h) : OccursBoundedAt(n, h, i)

\* Dates are <<year, month, day>>, the three numbers of a YYYY-MM-DD string.
IsLeap(y) == y % 4 = 0 /\ (y % 100 # 0 \/ y % 400 = 0)

DaysIn(y, m) ==
    IF m = 2 THEN (IF IsLeap(y) THEN 29 ELSE 28)
    ELSE IF m \in {4, 6, 9, 11} THEN 30 ELSE 31

\* datetime.MAXYEAR
MaxYear == 9999

\* datetime.fromisoformat accepts the string
IsCalendarDate(d) ==
    d[1] \in 1..MaxYear /\ d[2] \in 1..12 /\ d[3] \in 1..DaysIn(d[1], d[2])

\* a string fromisoformat rejects is returned unchanged, and so is the last
\* day of year 9999, whose next day raises OverflowError
_plus_one_day(d) ==
    IF ~IsCalendarDate(d) THEN d
    ELSE IF d[3] < DaysIn(d[1], d[2]) THEN <<d[1], d[2], d[3] + 1>>
    ELSE IF d[2] < 12 THEN <<d[1], d[2] + 1, 1>>
    ELSE IF d[1] < MaxYear THEN <<d[1] + 1, 1, 1>>
    ELSE d

(***************************************************************************)
(* State.  The settings read from the environment at import time keep      *)
(* their names; the other variables are the locals of one call of          *)
(* search_telemetr, whose awaits are the page requests.                    *)
(***************************************************************************)
VARIABLES
    TELEM_TOKEN,              \* TRUE when TELEMETR_TOKEN is set to a non-blank value
    TELEM_USE_QUOTES,
    TELEM_REQUIRE_EXACT,
    TELEM_TRUST_QUERY,
    TELEM_MIN_VIEWS,
    TELEM_PAGES,
    TELEM_DATE_TO_INCLUSIVE,
    ORGANIC_DEBUG,
    pc,                       \* "idle", "fetching" (a page request is awaited), "returned",
                              \* "raised", "cancelled"
    seeds,                    \* the argument seeds of the call
    seeds_raw,
    seeds_q,
    since,
    until,
    own_session,
    session,                  \* "none", "open" or "closed"
    idx,                      \* position of the current seed in seeds_raw, from 1
    page,
    items_all,
    fetched_total,
    matched,
    total_candidates,
    diag,
    result,                   \* what the caller of search_telemetr received
    requests,                 \* history: the page requests sent to the provider, in order
    responses,                \* history: what each request came back with
    fetched_log,              \* history: items_all of every seed whose pages are finished
    session_log,              \* history: "create", "get" and "close" on the call's session
    state,                    \* the dialog's FSM state
    data,                     \* the dialog's stored data
    sent,                     \* the bot's answers to the message it answered or edited last
    awaited,                  \* history: how the search the dialog last awaited ended
    tasks                     \* the dialog's handlers in progress, each at its await

settings ==
    <<TELEM_TOKEN, TELEM_USE_QUOTES, TELEM_REQUIRE_EXACT, TELEM_TRUST_QUERY,
      TELEM_MIN_VIEWS, TELEM_PAGES, TELEM_DATE_TO_INCLUSIVE, ORGANIC_DEBUG>>

arguments == <<seeds, seeds_raw, seeds_q, since, until, own_session>>

locals == <<idx, page, items_all, fetched_total>>

dialog == <<state, data, sent, awaited, tasks>>

\* the call the variables follow
call ==
    <<arguments, locals, pc, session, matched, total_candidates, diag, result,
      requests, responses, fetched_log, session_log>>

vars == <<settings, call, dialog>>

\* the page size: the default of limit and the literal of the loop's test
PageLimit == 50

\* the dialog's data before update_data and after state.clear()
NoData ==
    [stored |-> FALSE, start_date |-> <<0, 0, 0>>, end_date |-> <<0, 0, 0>>,
     since |-> <<0, 0, 0>>, until |-> <<0, 0, 0>>]

(***************************************************************************)
(* Diagnostics: the elements of the list diag, which the call joins with   *)
(* newlines when it returns.                                               *)
(***************************************************************************)
DiagLine(kind, seed, p, err, counts) ==
    [kind |-> kind, seed |-> seed, page |-> p, err |-> err, counts |-> counts]

NoSeedsText == DiagLine("no_seeds", <<>>, 0, "", <<>>)

PolicyLine == DiagLine("policy", <<>>, 0, "", <<>>)

ErrorLine(seed, p, err) == DiagLine("fetch_error", seed, p, err, <<>>)

SeedLine(seed, fetched, malformed, filtered_by_views, local_matched) ==
    DiagLine("seed", seed, 0, "", <<fetched, malformed, filtered_by_views, local_matched>>)

TotalsLine(candidates, total_matched) ==
    DiagLine("totals", <<>>, 0, "", <<candidates, total_matched>>)

\* the links listed under sample_links: those of the first ten matches that have one
RECURSIVE SampleLinks(_, _)
SampleLinks(ms, i) ==
    IF i > Len(ms) \/ i > 10 THEN <<>>
    ELSE (IF Truthy(ms[i]._link) THEN <<ms[i]._link>> ELSE <<>>) \o SampleLinks(ms, i + 1)

SampleLine(ms) == DiagLine("sample_links", <<>>, 0, "", <<Len(SampleLinks(ms, 1))>>)

(***************************************************************************)
(* The part of search_telemetr that runs on the items of one seed.         *)
(***************************************************************************)
\* mutant: the seeds are trimmed but the blank ones are kept
TrimSeeds_KeepBlank(seeds_arg) == [i \in 1..Len(seeds_arg) |-> Strip(seeds_arg[i])]

\* seeds_raw: the trimmed seeds that are not blank
RECURSIVE TrimSeeds(_)
TrimSeeds(seeds_arg) ==
    IF seeds_arg = <<>> THEN <<>>
    ELSE (IF Strip(Head(seeds_arg)) # <<>> THEN <<Strip(Head(seeds_arg))>> ELSE <<>>)
         \o TrimSeeds(Tail(seeds_arg))

RECURSIVE QuerySeeds(_, _)
QuerySeeds(raw, use_quotes) ==
    IF raw = <<>> THEN <<>>
    ELSE <<_normalize_seed(Head(raw), use_quotes)>> \o QuerySeeds(Tail(raw), use_quotes)

\* number of items counted as malformed
Malformed(items) == Cardinality({i \in 1..Len(items) : IsEmptyDict(_as_dict(items[i]))})

\* mutant: the view filter without its threshold
PassesViews_NoThreshold(d) == _views_of(d) >= 0

PassesViews(d) == _views_of(d) >= TELEM_MIN_VIEWS

\* norm: the normalised items that pass the view filter
NormItems(items) ==
    LET Kept(d) == ~IsEmptyDict(d) /\ PassesViews(d)
    IN  SelectSeq([i \in 1..Len(items) |-> _as_dict(items[i])], Kept)

\* the decision `ok` of the matching loop for one normalised item
Accepts(raw_seed, d) ==
    LET body == _body_from_item(d)
    IN  IF TELEM_REQUIRE_EXACT
        THEN IF body # <<>>
             THEN _contains_exact_phrase_word_boundary(raw_seed, body)
             ELSE TELEM_TRUST_QUERY
        ELSE TRUE

MatchRecord(raw_seed, d) == [item |-> d, _seed |-> raw_seed, _link |-> _link_of(d)]

\* mutant: the records of a seed are put in front of each other, newest first
LocalMatches_Reversed(raw_seed, norm) ==
    LET Ok(d) == Accepts(raw_seed, d)
        accepted == SelectSeq(norm, Ok)
    IN  [i \in 1..Len(accepted) |-> MatchRecord(raw_seed, accepted[Len(accepted) + 1 - i])]

\* the records the matching loop appends to matched
LocalMatches(raw_seed, norm) ==
    LET Ok(d) == Accepts(raw_seed, d)
        accepted == SelectSeq(norm, Ok)
    IN  [i \in 1..Len(accepted) |-> MatchRecord(raw_seed, accepted[i])]

\* the matching loop raises when it builds the body of such an item
MatchingRaises(norm) == \E i \in 1..Len(norm) : BodyRaises(norm[i])

\* the items the matching loop has gone through when it raises: those in
\* front of the first item whose body raises
BeforeRaise(norm) ==
    LET first == CHOOSE i \in 1..Len(norm) :
                     BodyRaises(norm[i]) /\ \A j \in 1..(i - 1) : ~BodyRaises(norm[j])
    IN  SubSeq(norm, 1, first - 1)

(***************************************************************************)
(* The body of search_telemetr between two awaits, as a function on the    *)
(* record of its locals: a = [raw, q, since, until] are the arguments      *)
(* after trimming, st the locals.  RunPage is the top of the page loop,    *)
(* RunSeedItems the code after the page loop.                              *)
(***************************************************************************)
\* params of _fetch_page
Request(query, s, u, p) ==
    [query |-> query, date_from |-> s,
     date_to |-> IF TELEM_DATE_TO_INCLUSIVE THEN _plus_one_day(u) ELSE u,
     limit |-> PageLimit, page |-> p]

\* the end of the call after the last seed: totals, sample links, return
Finish(st) ==
    LET d1 == Append(st.diag, TotalsLine(st.total_candidates, Len(st.matched)))
        d2 == IF ORGANIC_DEBUG /\ st.matched # <<>> /\ SampleLinks(st.matched, 1) # <<>>
              THEN Append(d1, SampleLine(st.matched))
              ELSE d1
    IN  [st EXCEPT !.diag = d2, !.pc = "returned"]

RECURSIVE RunPage(_, _)
RECURSIVE RunSeedItems(_, _)
\* one pass of `for page in ...`: _fetch_page raises at once without a token,
\* and otherwise sends the request and awaits the response
RunPage(a, st) ==
    IF ~TELEM_TOKEN
    THEN RunSeedItems(a, [st EXCEPT
             !.diag = Append(@, ErrorLine(a.raw[st.idx], st.page, "token_not_set"))])
    ELSE [st EXCEPT
             !.pc = "fetching",
             !.requests = Append(@, [seed |-> st.idx,
                                     params |-> Request(a.q[st.idx], a.since, a.until, st.page)]),
             !.session_log = Append(@, "get")]

\* normalisation, view filter, matching and the diagnostics line of one seed,
\* then the next seed or the end of the call
RunSeedItems(a, st) ==
    LET raw_seed == a.raw[st.idx]
        norm == NormItems(st.items_all)
        found == LocalMatches(raw_seed, norm)
        log == Append(st.fetched_log, st.items_all)
    IN  IF MatchingRaises(norm)
        THEN [st EXCEPT !.pc = "raised",
                        !.matched = @ \o LocalMatches(raw_seed, BeforeRaise(norm)),
                        !.fetched_log = log]
        ELSE LET done == [st EXCEPT
                     !.matched = @ \o found,
                     !.total_candidates = @ + Len(norm),
                     !.diag = Append(@, SeedLine(raw_seed, st.fetched_total,
                                                 Malformed(st.items_all), Len(norm), Len(found))),
                     !.fetched_log = log]
             IN  IF st.idx < Len(a.raw)
                 THEN RunPage(a, [done EXCEPT !.idx = @ + 1, !.page = 1,
                                              !.items_all = <<>>, !.fetched_total = 0])
                 ELSE Finish(done)

\* mutant: the page loop stops on an empty page only, not on a short one
RunAfterItems_StopOnEmpty(a, st, items) ==
    LET got == [st EXCEPT !.fetched_total = @ + Len(items), !.items_all = @ \o items]
    IN  IF Len(items) = 0 \/ st.page >= TELEM_PAGES
        THEN RunSeedItems(a, got)
        ELSE RunPage(a, [got EXCEPT !.page = @ + 1])

\* the code after `items, _meta = await _fetch_page(...)` returned items
RunAfterItems(a, st, items) ==
    LET got == [st EXCEPT !.fetched_total = @ + Len(items), !.items_all = @ \o items]
    IN  IF Len(items) < PageLimit \/ st.page >= TELEM_PAGES
        THEN RunSeedItems(a, got)
        ELSE RunPage(a, [got EXCEPT !.page = @ + 1])

\* mutant: a failed request ends the pages of the seed without a diagnostics line
RunAfterException_Silent(a, st) == RunSeedItems(a, st)

\* mutant: the except branch drops the pages the seed had fetched before
RunAfterException_Discard(a, st) ==
    RunSeedItems(a, [st EXCEPT
        !.diag = Append(@, ErrorLine(a.raw[st.idx], st.page, "request_failed")),
        !.items_all = <<>>,
        !.fetched_total = 0])

\* the except branch of the page loop for an exception of the awaited request
RunAfterException(a, st) ==
    RunSeedItems(a, [st EXCEPT
        !.diag = Append(@, ErrorLine(a.raw[st.idx], st.page, "request_failed"))])

\* mutant: the page loop catches the cancellation like a failed request
RunAfterCancel_Caught(a, st) == RunAfterException(a, st)

\* the awaited request is cancelled: CancelledError is no Exception, so it
\* passes the except branch of the page loop and leaves the call
RunAfterCancel(a, st) == [st EXCEPT !.pc = "cancelled"]

\* the value search_telemetr returns: the matches and the joined diagnostics
Result(found, lines) ==
    [returned |-> TRUE, found |-> found, meta |-> [t |-> "str", lines |-> lines]]

\* the caller has received nothing
NoResult == [returned |-> FALSE, found |-> <<>>, meta |-> [t |-> "none", lines |-> <<>>]]

\* the call has left its try block: by return, by an exception, by cancellation
Exited(st) == st.pc \in {"returned", "raised", "cancelled"}

\* mutant: the session is closed after the try block, not in a finally block
SessionAfter_NoFinally(st, own) == IF st.pc = "returned" /\ own THEN "closed" ELSE "open"

\* mutant: the finally block closes the session whoever created it
SessionAfter_CloseAny(st, own) == IF Exited(st) THEN "closed" ELSE "open"

\* the finally block closes the session the call created
SessionAfter(st, own) == IF Exited(st) /\ own THEN "closed" ELSE "open"

\* The frame of a call of search_telemetr: its arguments, its locals, its
\* session, what its caller has received and the histories of the call, under
\* the names of the variables.  No call yet, the caller's session being sess:
NoCall(sess) ==
    [pc |-> "idle", seeds |-> <<>>, seeds_raw |-> <<>>, seeds_q |-> <<>>,
     since |-> <<2025, 9, 30>>, until |-> <<2025, 9, 30>>, own_session |-> FALSE,
     session |-> sess, idx |-> 0, page |-> 0, items_all |-> <<>>, fetched_total |-> 0,
     matched |-> <<>>, total_candidates |-> 0, diag |-> <<>>, result |-> NoResult,
     requests |-> <<>>, responses |-> <<>>, fetched_log |-> <<>>, session_log |-> <<>>]

\* the frame of the call the variables follow
Frame ==
    [pc |-> pc, seeds |-> seeds, seeds_raw |-> seeds_raw, seeds_q |-> seeds_q,
     since |-> since, until |-> until, own_session |-> own_session,
     session |-> session, idx |-> idx, page |-> page, items_all |-> items_all,
     fetched_total |-> fetched_total, matched |-> matched,
     total_candidates |-> total_candidates, diag |-> diag, result |-> result,
     requests |-> requests, responses |-> responses, fetched_log |-> fetched_log,
     session_log |-> session_log]

LocalsOf(f) ==
    [pc |-> f.pc, idx |-> f.idx, page |-> f.page, items_all |-> f.items_all,
     fetched_total |-> f.fetched_total, matched |-> f.matched,
     total_candidates |-> f.total_candidates, diag |-> f.diag,
     requests |-> f.requests, fetched_log |-> f.fetched_log,
     session_log |-> f.session_log]

ArgsOf(f) == [raw |-> f.seeds_raw, q |-> f.seeds_q, since |-> f.since, until |-> f.until]

\* the frame f with the locals st the call has come to: at the exit of the
\* call the finally block closes the session, and a return hands the result
\* to the caller
Committed(f, st) ==
    [f EXCEPT
        !.pc = st.pc,
        !.idx = st.idx,
        !.page = st.page,
        !.items_all = st.items_all,
        !.fetched_total = st.fetched_total,
        !.matched = st.matched,
        !.total_candidates = st.total_candidates,
        !.diag = st.diag,
        !.requests = st.requests,
        !.fetched_log = st.fetched_log,
        !.session = SessionAfter(st, f.own_session),
        !.session_log = IF SessionAfter(st, f.own_session) = "closed"
                        THEN Append(st.session_log, "close")
                        ELSE st.session_log,
        !.result = IF st.pc = "returned" THEN Result(st.matched, st.diag) ELSE @]

\* search_telemetr(seeds_arg, s, u, session=...) up to its first await or, when
\* it awaits nothing, to its end; the caller passes its session when it has
\* one (sess = "open")
Started(seeds_arg, s, u, sess) ==
    LET raw == TrimSeeds(seeds_arg)
        supplied == sess = "open"
        f == [NoCall(sess) EXCEPT
                 !.seeds = seeds_arg,
                 !.seeds_raw = raw,
                 !.seeds_q = QuerySeeds(raw, TELEM_USE_QUOTES),
                 !.since = s,
                 !.until = u]
        st == [LocalsOf(f) EXCEPT
                  !.idx = 1, !.page = 1, !.diag = <<PolicyLine>>,
                  !.session_log = IF supplied THEN @ ELSE Append(@, "create")]
    IN  IF raw = <<>>
        THEN [f EXCEPT !.pc = "returned",
                       !.diag = <<NoSeedsText>>,
                       !.result = Result(<<>>, <<NoSeedsText>>)]
        ELSE Committed([f EXCEPT !.own_session = ~supplied], RunPage(ArgsOf(f), st))

\* how the awaited page request ends
Answer(kind, items) == [kind |-> kind, items |-> items]

\* the call of frame f, suspended in a page request, from the end of the
\* request to its next await or to its end
Continue(f, ans) ==
    LET a == ArgsOf(f)
        st == LocalsOf(f)
        next == CASE ans.kind = "items" -> RunAfterItems(a, st, ans.items)
                  [] ans.kind = "protocol_error" -> RunAfterItems(a, st, <<>>)
                  [] ans.kind = "transport_error" -> RunAfterException(a, st)
                  [] ans.kind = "items_not_sized" -> [st EXCEPT !.pc = "raised"]
                  [] ans.kind = "cancelled" -> RunAfterCancel(a, st)
    IN  Committed([f EXCEPT !.responses =
                       Append(@, [kind |-> ans.kind, size |-> Len(ans.items)])],
                  next)

\* the variables take the values of the frame f
Becomes(f) ==
    /\ pc' = f.pc
    /\ seeds' = f.seeds
    /\ seeds_raw' = f.seeds_raw
    /\ seeds_q' = f.seeds_q
    /\ since' = f.since
    /\ until' = f.until
    /\ own_session' = f.own_session
    /\ session' = f.session
    /\ idx' = f.idx
    /\ page' = f.page
    /\ items_all' = f.items_all
    /\ fetched_total' = f.fetched_total
    /\ matched' = f.matched
    /\ total_candidates' = f.total_candidates
    /\ diag' = f.diag
    /\ result' = f.result
    /\ requests' = f.requests
    /\ responses' = f.responses
    /\ fetched_log' = f.fetched_log
    /\ session_log' = f.session_log

(***************************************************************************)
(* Inputs: the seed lists a caller passes, the dates, and the pages the    *)
(* provider answers with.                                                  *)
(***************************************************************************)
SeedAB == <<"a", " ", "b">>

SeedBPadded == <<" ", "b">>

SeedBlank == <<" ">>

\* the seed "a b" as a user who wants the exact phrase types it
SeedQuoted == <<Quote, "a", " ", "b", Quote>>

SeedInputs ==
    {<<>>, <<SeedBlank>>, <<SeedAB>>, <<SeedQuoted>>, <<SeedAB, SeedBlank, SeedBPadded>>}

\* <<since, until>> as the caller passes them: in order, and reversed
DateRanges == {<<<<2025, 9, 30>>, <<2025, 10, 5>>>>, <<<<2025, 10, 5>>, <<2025, 9, 30>>>>}

\* the seed "a b" at a word boundary, in mixed case and with a no-break space
Hit ==
    Mapping(StrVal(<<"c">>), StrVal(<<"A", NBSP, "b", ".">>), Nothing,
            IntVal(5000), Nothing, Nothing, StrVal(<<"1">>), Nothing)

\* the seed "a b" only inside longer words
InsideWord ==
    Mapping(Nothing, StrVal(<<"c", "a", " ", "b", "c">>), Nothing,
            IntVal(5000), Nothing, Nothing, StrVal(<<"5">>), Nothing)

\* a post without text
NoText ==
    Mapping(Nothing, StrVal(<<" ">>), Nothing,
            StrVal(<<"5", "0", "0", "0">>), Nothing, StrVal(<<"0">>), Nothing, Nothing)

LowViews ==
    Mapping(Nothing, Nothing, StrVal(<<"a", " ", "b">>),
            StrVal(<<"5", "0", "0">>), Nothing, Nothing, Nothing, StrVal(<<"1", "0">>))

\* the seed "a b" followed by a Cyrillic letter outside the Russian alphabet
LongerWord ==
    Mapping(Nothing, StrVal(<<"a", " ", " ", "b", CyrI>>), Nothing,
            IntVal(5000), Nothing, Nothing, StrVal(<<"1", "5">>), Nothing)

\* a post with neither seed in it and no link
Filler ==
    Mapping(Nothing, StrVal(<<"c">>), Nothing,
            Nothing, IntVal(1000), Nothing, Nothing, Nothing)

ViewsNotANumber ==
    Mapping(Nothing, StrVal(<<"b">>), Nothing,
            StrVal(<<"a">>), IntVal(5000), Nothing, Nothing, StrVal(<<"5", "1">>))

ViewsZero ==
    Mapping(Nothing, StrVal(<<"b">>), Nothing,
            IntVal(0), IntVal(5000), Nothing, Nothing, StrVal(<<"5", "5">>))

\* a signed number in a string: int() gives -5
ViewsNegative ==
    Mapping(Nothing, StrVal(<<"b">>), Nothing,
            StrVal(<<" ", "-", "5">>), IntVal(5000), Nothing, Nothing, StrVal(<<"5", "9">>))

TitleNotAString ==
    Mapping(IntVal(5), StrVal(<<"a", " ", "b">>), Nothing,
            IntVal(5000), Nothing, Nothing, Nothing, Nothing)

PageEmpty == <<>>

PageA == <<Hit, InsideWord, NoText>>

PageB == <<LowViews, LongerWord, Hit>>

PageC ==
    <<BareString(<<"a", " ", "b">>), NotAnItem, EmptyMapping, BareString(<<>>),
      ViewsNotANumber, ViewsZero, ViewsNegative>>

PageFull == [i \in 1..PageLimit |-> IF i = 1 THEN Hit ELSE Filler]

\* a full page with one item whose title is a number
PageFullOdd == [i \in 1..PageLimit |-> IF i = 1 THEN TitleNotAString ELSE Filler]

ProviderPages == {PageEmpty, PageA, PageB, PageC, PageFull, PageFullOdd}

\* largest TELEMETR_PAGES explored
MaxPages == 2

(***************************************************************************)
(* Initial states: the settings as read from the environment, no call yet. *)
(***************************************************************************)
NoCallYet ==
    /\ pc = "idle"
    /\ seeds = <<>>
    /\ seeds_raw = <<>>
    /\ seeds_q = <<>>
    /\ since = <<2025, 9, 30>>
    /\ until = <<2025, 9, 30>>
    /\ own_session = FALSE
    /\ idx = 0
    /\ page = 0
    /\ items_all = <<>>
    /\ fetched_total = 0
    /\ matched = <<>>
    /\ total_candidates = 0
    /\ diag = <<>>
    /\ result = NoResult
    /\ requests = <<>>
    /\ responses = <<>>
    /\ fetched_log = <<>>
    /\ session_log = <<>>

\* no dialog is open: direct calls of search_telemetr
NoDialog ==
    /\ state = "none"
    /\ data = NoData
    /\ sent = <<>>
    /\ awaited = "none"
    /\ tasks = <<>>

\* Every setting of the token, the matching toggles, the view threshold and the
\* page budget; the query and diagnostics toggles at the defaults of the code.
Init ==
    /\ TELEM_TOKEN \in BOOLEAN
    /\ TELEM_REQUIRE_EXACT \in BOOLEAN
    /\ TELEM_TRUST_QUERY \in BOOLEAN
    /\ TELEM_MIN_VIEWS \in {0, 1000}
    /\ TELEM_PAGES \in 1..MaxPages
    /\ TELEM_USE_QUOTES = TRUE
    /\ TELEM_DATE_TO_INCLUSIVE = FALSE
    /\ ORGANIC_DEBUG = FALSE
    /\ session = "none"
    /\ NoCallYet
    /\ NoDialog

(***************************************************************************)
(* Actions: the call up to its first await, and the continuation of the    *)
(* call for each way the awaited page request can end.  They leave the     *)
(* dialog as it is.                                                        *)
(***************************************************************************)
\* search_telemetr(seeds, s, u, session=...) up to the first await; the caller
\* passes its session when it has one (session = "open" before the call)
Call(seeds_arg, s, u) ==
    /\ pc = "idle"
    /\ Becomes(Started(seeds_arg, s, u, session))
    /\ UNCHANGED settings

\* the request returns a success envelope with a list of items
FetchItems(items) ==
    /\ pc = "fetching"
    /\ Becomes(Continue(Frame, Answer("items", items)))
    /\ UNCHANGED <<settings, dialog>>

\* the response is no mapping or its status is not "ok": _fetch_page returns [], {"error": data}
FetchProtocolError ==
    /\ pc = "fetching"
    /\ Becomes(Continue(Frame, Answer("protocol_error", <<>>)))
    /\ UNCHANGED <<settings, dialog>>

\* session.get or resp.json raises (network failure, timeout, no JSON)
FetchTransportError ==
    /\ pc = "fetching"
    /\ Becomes(Continue(Frame, Answer("transport_error", <<>>)))
    /\ UNCHANGED <<settings, dialog>>

\* a success envelope whose "items" is a number: len(items) raises outside the try
FetchItemsNotSized ==
    /\ pc = "fetching"
    /\ Becomes(Continue(Frame, Answer("items_not_sized", <<>>)))
    /\ UNCHANGED <<settings, dialog>>

\* the caller cancels the call while it awaits the page request
Cancel ==
    /\ pc = "fetching"
    /\ Becomes(Continue(Frame, Answer("cancelled", <<>>)))
    /\ UNCHANGED <<settings, dialog>>

\* search_telemetr called directly, outside the dialog
DirectCall ==
    \E seeds_arg \in SeedInputs, range \in DateRanges :
        Call(seeds_arg, range[1], range[2]) /\ UNCHANGED dialog

Next ==
    \/ DirectCall
    \/ \E items \in ProviderPages : FetchItems(items)
    \/ FetchProtocolError
    \/ FetchTransportError
    \/ FetchItemsNotSized
    \/ Cancel

Spec == Init /\ [][Next]_vars

\* Every setting of the token, of strict matching, of the page budget and of
\* the query and diagnostics toggles; no view threshold, no trust in the query.
InitToggles ==
    /\ TELEM_TOKEN \in BOOLEAN
    /\ TELEM_REQUIRE_EXACT \in BOOLEAN
    /\ TELEM_TRUST_QUERY = FALSE
    /\ TELEM_MIN_VIEWS = 0
    /\ TELEM_PAGES \in 1..MaxPages
    /\ TELEM_USE_QUOTES \in BOOLEAN
    /\ TELEM_DATE_TO_INCLUSIVE \in BOOLEAN
    /\ ORGANIC_DEBUG \in BOOLEAN
    /\ session = "none"
    /\ NoCallYet
    /\ NoDialog

SpecToggles == InitToggles /\ [][Next]_vars

\* The caller holds an open session and passes it to the call; the token set
\* or not, strict matching on or off, every page budget.
InitCallerSession ==
    /\ TELEM_TOKEN \in BOOLEAN
    /\ TELEM_REQUIRE_EXACT \in BOOLEAN
    /\ TELEM_TRUST_QUERY = FALSE
    /\ TELEM_MIN_VIEWS = 0
    /\ TELEM_PAGES \in 1..MaxPages
    /\ TELEM_USE_QUOTES = TRUE
    /\ TELEM_DATE_TO_INCLUSIVE = FALSE
    /\ ORGANIC_DEBUG = FALSE
    /\ session = "open"
    /\ NoCallYet
    /\ NoDialog

SpecCallerSession == InitCallerSession /\ [][Next]_vars

(***************************************************************************)
(* The dialog of bot/entrypoints/commands.py.  A message is its text, a    *)
(* sequence of characters, or a message without text (a photo).  The       *)
(* router gives a message to the first handler whose filter accepts it.    *)
(* dp.start_polling(bot) of bot/main.py handles every update in a task of  *)
(* its own, so a handler that is suspended in an answer to the user, in a  *)
(* page request of its search or in the edit of its status message does    *)
(* not hold back the handler of the next message, and several searches can *)
(* be in flight at once.  The FSM storage is the dispatcher's memory       *)
(* storage, whose operations do not suspend: a handler runs without        *)
(* interruption from one of these awaits to the next.  Each search of the  *)
(* dialog has its frame in the task of its handler; the variables of a     *)
(* direct call stay as they are.                                           *)
(***************************************************************************)
EmDash == "U+2014"

TextMessage(text) == [has_text |-> TRUE, text |-> text]

\* a message whose text is None
PhotoMessage == [has_text |-> FALSE, text |-> <<>>]

\* the first word of a text: text.split(maxsplit=1)[0]
RECURSIVE Word(_)
Word(s) == IF s = <<>> \/ IsSpace(Head(s)) THEN <<>> ELSE <<Head(s)>> \o Word(Tail(s))

\* the filter CommandStart(): the message is the command /start
IsStartCommand(m) == m.has_text /\ Word(LStrip(m.text)) = <<"/", "s", "t", "a", "r", "t">>

\* \d{4}-\d{2}-\d{2} matches s at position i
DateAt(s, i) ==
    /\ i + 9 <= Len(s)
    /\ \A k \in {0, 1, 2, 3, 5, 6, 8, 9} : IsAsciiDigit(s[i + k])
    /\ s[i + 4] = "-"
    /\ s[i + 7] = "-"

\* the date string at position i, as <<year, month, day>>
IsoDate(s, i) ==
    <<DecimalValue(SubSeq(s, i, i + 3)), DecimalValue(SubSeq(s, i + 5, i + 6)),
      DecimalValue(SubSeq(s, i + 8, i + 9))>>

\* \s*: the first position from i on that holds no whitespace
RECURSIVE SkipSpaces(_, _)
SkipSpaces(s, i) == IF i <= Len(s) /\ IsSpace(s[i]) THEN SkipSpaces(s, i + 1) ELSE i

\* re.match(r"(\d{4}-\d{2}-\d{2})\s*[—-]\s*(\d{4}-\d{2}-\d{2})", text): the
\* position of the second date, or 0 when the pattern does not match
SecondDateAt(text) ==
    IF ~DateAt(text, 1) THEN 0
    ELSE LET j == SkipSpaces(text, 11)
         IN  IF j > Len(text) \/ text[j] \notin {EmDash, "-"} THEN 0
             ELSE LET k == SkipSpaces(text, j + 1)
                  IN  IF DateAt(text, k) THEN k ELSE 0

\* text.splitlines()
RECURSIVE SplitLines(_, _)
SplitLines(s, line) ==
    IF s = <<>> THEN (IF line = <<>> THEN <<>> ELSE <<line>>)
    ELSE IF Head(s) = "\n" THEN <<line>> \o SplitLines(Tail(s), <<>>)
    ELSE SplitLines(Tail(s), Append(line, Head(s)))

RECURSIVE StripNonBlank(_)
StripNonBlank(lines) ==
    IF lines = <<>> THEN <<>>
    ELSE (IF Strip(Head(lines)) # <<>> THEN <<Strip(Head(lines))>> ELSE <<>>)
         \o StripNonBlank(Tail(lines))

_extract_phrases(m) == StripNonBlank(SplitLines(m.text, <<>>))

\* the largest number of handlers in progress at once
MaxHandlers == 2

\* a handler suspended in an answer to the user, with the locals it resumes
\* with; `at` is the await the handler is suspended in: "answer" (m.answer),
\* "search" (the page request of its call, whose frame is `call`) or "reply"
\* (status.edit_text and the answers after it, `pending` being the answers
\* still to send)
Task(handler, phrases, s, u) ==
    [handler |-> handler, at |-> "answer", phrases |-> phrases, since |-> s, until |-> u,
     call |-> NoCall("none"), pending |-> <<>>]

\* the handlers in progress without the i-th
Resumed(i) == SubSeq(tasks, 1, i - 1) \o SubSeq(tasks, i + 1, Len(tasks))

\* the handlers in progress
HandlersInProgress == Len(tasks)

\* the dispatcher starts the handler of a new message
CanStart == HandlersInProgress < MaxHandlers

\* start_cmd up to the end of its answer: state.clear(), the greeting
start_cmd(m) ==
    /\ CanStart
    /\ IsStartCommand(m)
    /\ state' = "none"
    /\ data' = NoData
    /\ sent' = <<"greeting">>
    /\ tasks' = Append(tasks, Task("start_cmd", <<>>, NoData.start_date, NoData.end_date))
    /\ UNCHANGED <<settings, call, awaited>>

\* start_cmd after its answer: set_state(waiting_for_dates)
start_cmd_after_answer ==
    /\ \E i \in 1..Len(tasks) :
           /\ tasks[i].handler = "start_cmd"
           /\ tasks' = Resumed(i)
    /\ state' = "waiting_for_dates"
    /\ UNCHANGED <<settings, call, awaited, data, sent>>

\* handle_dates up to the end of its answer
handle_dates(m) ==
    /\ CanStart
    /\ ~IsStartCommand(m)
    /\ state = "waiting_for_dates"
    /\ IF ~m.has_text
       THEN \* m.text.strip() raises AttributeError: nothing is answered
            UNCHANGED <<data, sent, tasks>>
       ELSE LET text == Strip(m.text)
                k == SecondDateAt(text)
            IN  IF k = 0
                THEN /\ sent' = <<"bad_format">>
                     /\ UNCHANGED <<data, tasks>>
                ELSE /\ data' = [data EXCEPT !.stored = TRUE,
                                              !.start_date = IsoDate(text, 1),
                                              !.end_date = IsoDate(text, k)]
                     /\ sent' = <<"range_accepted">>
                     /\ tasks' = Append(tasks, Task("handle_dates", <<>>,
                                                    NoData.start_date, NoData.end_date))
    /\ UNCHANGED <<settings, call, awaited, state>>

\* handle_dates after its answer: set_state(waiting_for_phrases)
handle_dates_after_answer ==
    /\ \E i \in 1..Len(tasks) :
           /\ tasks[i].handler = "handle_dates"
           /\ tasks' = Resumed(i)
    /\ state' = "waiting_for_phrases"
    /\ UNCHANGED <<settings, call, awaited, data, sent>>

\* handle_phrases up to the end of its status answer: the phrases, get_data();
\* dates that are not in the data are None, written as the dates of NoData
handle_phrases(m) ==
    /\ CanStart
    /\ ~IsStartCommand(m)
    /\ state = "waiting_for_phrases"
    /\ LET phrases == _extract_phrases(m)
       IN  IF phrases = <<>>
           THEN /\ sent' = <<"no_phrases">>
                /\ UNCHANGED tasks
           ELSE /\ sent' = <<"search_started">>
                /\ tasks' = Append(tasks, Task("handle_phrases", phrases,
                                               data.start_date, data.end_date))
    /\ UNCHANGED <<settings, call, awaited, state, data>>

\* the largest number of cards handle_phrases sends
MaxCards == 30

\* the parameters of fmt_summary, and the keywords handle_phrases calls it with
fmt_summary_parameters == {"diag"}

fmt_summary_keywords == {"total", "matched", "since", "until", "phrases"}

\* the line that reports the summary raises: meta.get(...) when meta has no
\* method get (a str), and the call of fmt_summary when its keywords are not
\* its parameters
SummaryRaises(res) ==
    \/ res.meta.t # "dict"
    \/ fmt_summary_keywords # fmt_summary_parameters

\* what the success path answers: the summary in place of the status message,
\* then the cards or the notice that nothing was found
SuccessReplies(res) ==
    IF res.found = <<>> THEN <<"summary", "nothing_found">>
    ELSE <<"summary">>
         \o [i \in 1..(IF Len(res.found) < MaxCards THEN Len(res.found) ELSE MaxCards) |-> "card"]
         \o (IF Len(res.found) > MaxCards THEN <<"more_results">> ELSE <<>>)

\* handle_phrases, the i-th handler in progress, from the point where its
\* call of search_telemetr has come to the frame f.  The call awaits a page
\* request: the handler is suspended with it.  The call is over: the try body
\* or the except branch for an Exception runs up to its first await, the edit
\* of the status message, and the frame of the call is gone; a cancellation
\* passes the except branch, so the finally block runs at once
AwaitsSearch(i, f) ==
    IF f.pc = "fetching"
    THEN /\ tasks' = [tasks EXCEPT ![i].at = "search", ![i].call = f]
         /\ UNCHANGED <<state, data, sent, awaited>>
    ELSE /\ awaited' = f.pc
         /\ IF f.pc = "cancelled"
            THEN /\ state' = "none"
                 /\ data' = NoData
                 /\ tasks' = Resumed(i)
                 /\ UNCHANGED sent
            ELSE LET replies == IF f.pc = "raised" \/ SummaryRaises(f.result)
                                THEN <<"search_error">>
                                ELSE SuccessReplies(f.result)
                 IN  /\ sent' = <<Head(replies)>>
                     /\ tasks' = [tasks EXCEPT ![i].at = "reply",
                                               ![i].call = NoCall("none"),
                                               ![i].pending = Tail(replies)]
                     /\ UNCHANGED <<state, data>>

\* handle_phrases after its status answer: the call of search_telemetr up to
\* its first await and, when the call awaits nothing, the code after it
handle_phrases_search ==
    /\ \E i \in 1..Len(tasks) :
           /\ tasks[i].handler = "handle_phrases"
           /\ tasks[i].at = "answer"
           /\ AwaitsSearch(i, Started(tasks[i].phrases, tasks[i].since, tasks[i].until,
                                      "none"))
    /\ UNCHANGED <<settings, call>>

\* the page request of a search of the dialog ends: the call up to its next
\* await and, when the call is over, the code after it
handle_phrases_fetched(ans) ==
    /\ \E i \in 1..Len(tasks) :
           /\ tasks[i].handler = "handle_phrases"
           /\ tasks[i].at = "search"
           /\ AwaitsSearch(i, Continue(tasks[i].call, ans))
    /\ UNCHANGED <<settings, call>>

\* the task of a handler of the dialog is cancelled at the await it is
\* suspended in.  In an answer to the user (outside every try block) the
\* handler ends there, with the state and the data as they are; in the page
\* request of its search the call is left through its finally block, and in
\* the edit of the status message or an answer after it the handler is
\* inside its try block or its except branch: both run state.clear() in the
\* finally block of handle_phrases
handler_cancelled ==
    /\ \E i \in 1..Len(tasks) :
           CASE tasks[i].at = "answer" ->
                    /\ tasks' = Resumed(i)
                    /\ UNCHANGED <<state, data, sent, awaited>>
             [] tasks[i].at = "search" ->
                    AwaitsSearch(i, Continue(tasks[i].call, Answer("cancelled", <<>>)))
             [] tasks[i].at = "reply" ->
                    /\ state' = "none"
                    /\ data' = NoData
                    /\ tasks' = Resumed(i)
                    /\ UNCHANGED <<sent, awaited>>
    /\ UNCHANGED <<settings, call>>

\* handle_phrases after the edit of its status message or an answer of the
\* success path: the next answer, or state.clear() in the finally block
handle_phrases_after_reply ==
    /\ \E i \in 1..Len(tasks) :
           /\ tasks[i].at = "reply"
           /\ IF tasks[i].pending # <<>>
              THEN /\ sent' = Append(sent, Head(tasks[i].pending))
                   /\ tasks' = [tasks EXCEPT ![i].pending = Tail(@)]
                   /\ UNCHANGED <<state, data>>
              ELSE /\ state' = "none"
                   /\ data' = NoData
                   /\ tasks' = Resumed(i)
                   /\ UNCHANGED sent
    /\ UNCHANGED <<settings, call, awaited>>

\* the messages users send
StartMessage == TextMessage(<<"/", "s", "t", "a", "r", "t">>)

RangeMessage ==
    TextMessage(<<"2", "0", "2", "5", "-", "0", "9", "-", "3", "0", " ", EmDash, NBSP,
                  "2", "0", "2", "5", "-", "1", "0", "-", "0", "5", "\n">>)

\* one date only
NoRangeMessage == TextMessage(<<"2", "0", "2", "5", "-", "0", "9", "-", "3", "0", " ", "-">>)

\* the phrases "a b" and "b", with a blank line between them
PhrasesMessage == TextMessage(<<"a", " ", "b", "\n", " ", "\n", " ", "b">>)

BlankMessage == TextMessage(<<" ", "\n">>)

Messages ==
    {StartMessage, RangeMessage, NoRangeMessage, PhrasesMessage, BlankMessage, PhotoMessage}

\* the token set or not, strict matching, every page budget; the dialog not started
InitDialog ==
    /\ TELEM_TOKEN \in BOOLEAN
    /\ TELEM_REQUIRE_EXACT = TRUE
    /\ TELEM_TRUST_QUERY = FALSE
    /\ TELEM_MIN_VIEWS = 0
    /\ TELEM_PAGES \in 1..MaxPages
    /\ TELEM_USE_QUOTES = TRUE
    /\ TELEM_DATE_TO_INCLUSIVE = FALSE
    /\ ORGANIC_DEBUG = FALSE
    /\ session = "none"
    /\ NoCallYet
    /\ NoDialog

\* the pages the provider answers the dialog's searches with: a short page
\* and a full one
DialogPages == {PageA, PageFull}

\* how a page request of the dialog's searches ends
DialogAnswers ==
    {Answer("items", items) : items \in DialogPages}
        \cup {Answer("protocol_error", <<>>), Answer("transport_error", <<>>),
              Answer("items_not_sized", <<>>)}

\* the bot as bot/main.py starts it: messages are handled by the router of
\* bot/entrypoints/commands.py, whose handle_phrases calls search_telemetr
DialogNext ==
    \/ \E m \in Messages : start_cmd(m)
    \/ start_cmd_after_answer
    \/ \E m \in Messages : handle_dates(m)
    \/ handle_dates_after_answer
    \/ \E m \in Messages : handle_phrases(m)
    \/ handle_phrases_search
    \/ \E ans \in DialogAnswers : handle_phrases_fetched(ans)
    \/ handler_cancelled
    \/ handle_phrases_after_reply

DialogSpec == InitDialog /\ [][DialogNext]_vars

(***************************************************************************)
(* The router of bot/handlers/telemetr_search.py, with the handlers        *)
(* cmd_start, got_range and got_seeds over the states awaiting_range and   *)
(* awaiting_seeds.  bot/main.py does not include this router, so the bot   *)
(* it starts never routes a message to it; FlowSpec is the dialog of a     *)
(* dispatcher that includes this router alone.                             *)
(***************************************************************************)
\* the filter F.text == "/start"
IsStartText(m) == m.has_text /\ m.text = <<"/", "s", "t", "a", "r", "t">>

\* the filter F.text: the message has a text that is not empty
HasText(m) == m.has_text /\ m.text # <<>>

\* the pattern r"(\\d{4}-\\d{2}-\\d{2})" of _parse_range is a backslash and
\* four letters d, a hyphen, a backslash and two letters d, and so on: the
\* one text it matches
RangePattern == <<"\\", "d", "d", "d", "d", "-", "\\", "d", "d", "-", "\\", "d", "d">>

\* dates are triples of numbers; this triple, no calendar date, stands for
\* the text of RangePattern where a date string is expected
RangePatternAsDate == <<0, 0, 1>>

\* txt.replace("—", "-")
RECURSIVE DashesReplaced(_)
DashesReplaced(s) ==
    IF s = <<>> THEN <<>>
    ELSE <<IF Head(s) = EmDash THEN "-" ELSE Head(s)>> \o DashesReplaced(Tail(s))

\* len(re.findall(pattern, s)), scanning from position i
RECURSIVE PatternCount(_, _)
PatternCount(s, i) ==
    IF i + Len(RangePattern) - 1 > Len(s) THEN 0
    ELSE IF SubSeq(s, i, i + Len(RangePattern) - 1) = RangePattern
         THEN 1 + PatternCount(s, i + Len(RangePattern))
         ELSE PatternCount(s, i + 1)

\* the first two matches, or <<>> for None
_parse_range(txt) ==
    IF PatternCount(DashesReplaced(txt), 1) >= 2
    THEN <<RangePatternAsDate, RangePatternAsDate>>
    ELSE <<>>

\* cmd_start: set_state(awaiting_range) with the data as it is, then the greeting
cmd_start(m) ==
    /\ CanStart
    /\ IsStartText(m)
    /\ state' = "awaiting_range"
    /\ sent' = <<"greeting">>
    /\ UNCHANGED <<settings, call, awaited, data, tasks>>

\* got_range: the answer is its last statement in both branches
got_range(m) ==
    /\ CanStart
    /\ ~IsStartText(m)
    /\ state = "awaiting_range"
    /\ HasText(m)
    /\ LET pr == _parse_range(m.text)
       IN  IF pr = <<>>
           THEN /\ sent' = <<"cannot_parse">>
                /\ UNCHANGED <<state, data>>
           ELSE /\ data' = [data EXCEPT !.stored = TRUE, !.since = pr[1], !.until = pr[2]]
                /\ state' = "awaiting_seeds"
                /\ sent' = <<"range_accepted">>
    /\ UNCHANGED <<settings, call, awaited, tasks>>

\* got_seeds up to the end of its answer that the search starts: get_data(),
\* the seeds; dates that are not in the data are None, written as the dates
\* of NoData
got_seeds(m) ==
    /\ CanStart
    /\ ~IsStartText(m)
    /\ state = "awaiting_seeds"
    /\ HasText(m)
    /\ LET seeds_arg == StripNonBlank(SplitLines(m.text, <<>>))
       IN  IF seeds_arg = <<>>
           THEN /\ sent' = <<"need_phrases">>
                /\ UNCHANGED tasks
           ELSE /\ sent' = <<"search_started">>
                /\ tasks' = Append(tasks, Task("got_seeds", seeds_arg, data.since, data.until))
    /\ UNCHANGED <<settings, call, awaited, state, data>>

\* got_seeds, the i-th handler in progress, from the point where its call of
\* search_telemetr has come to the frame f.  An Exception of the call is
\* answered with the search error, the second answer to the message of the
\* seeds after the one that the search starts.  When the call returned,
\* fmt_summary(since, until, seeds, len(items)) raises TypeError outside the
\* try block, fmt_summary having one parameter: the handler ends there and
\* the lines after it never run.  No branch changes the state or the data
GotSeedsAwaitsSearch(i, f) ==
    IF f.pc = "fetching"
    THEN /\ tasks' = [tasks EXCEPT ![i].at = "search", ![i].call = f]
         /\ UNCHANGED <<state, data, sent, awaited>>
    ELSE /\ awaited' = f.pc
         /\ sent' = IF f.pc = "raised" THEN <<"search_started", "search_error">> ELSE sent
         /\ tasks' = Resumed(i)
         /\ UNCHANGED <<state, data>>

\* got_seeds after its answer: the call of search_telemetr up to its first
\* await and, when the call awaits nothing, the code after it
got_seeds_search ==
    /\ \E i \in 1..Len(tasks) :
           /\ tasks[i].handler = "got_seeds"
           /\ tasks[i].at = "answer"
           /\ GotSeedsAwaitsSearch(i, Started(tasks[i].phrases, tasks[i].since,
                                              tasks[i].until, "none"))
    /\ UNCHANGED <<settings, call>>

\* the page request of a search of got_seeds ends
got_seeds_fetched(ans) ==
    /\ \E i \in 1..Len(tasks) :
           /\ tasks[i].handler = "got_seeds"
           /\ tasks[i].at = "search"
           /\ GotSeedsAwaitsSearch(i, Continue(tasks[i].call, ans))
    /\ UNCHANGED <<settings, call>>

\* the task of got_seeds is cancelled in its answer or in the page request of
\* its search
got_seeds_cancelled ==
    /\ \E i \in 1..Len(tasks) :
           /\ tasks[i].handler = "got_seeds"
           /\ IF tasks[i].at = "answer"
              THEN /\ tasks' = Resumed(i)
                   /\ UNCHANGED <<state, data, sent, awaited>>
              ELSE GotSeedsAwaitsSearch(i, Continue(tasks[i].call,
                                                    Answer("cancelled", <<>>)))
    /\ UNCHANGED <<settings, call>>

\* two texts of RangePattern around a dash
PatternMessage == TextMessage(RangePattern \o <<" ", EmDash, " ">> \o RangePattern)

FlowMessages ==
    {StartMessage, RangeMessage, PatternMessage, PhrasesMessage, BlankMessage, PhotoMessage}

FlowNext ==
    \/ \E m \in FlowMessages : cmd_start(m)
    \/ \E m \in FlowMessages : got_range(m)
    \/ \E m \in FlowMessages : got_seeds(m)
    \/ got_seeds_search
    \/ \E ans \in DialogAnswers : got_seeds_fetched(ans)
    \/ got_seeds_cancelled

FlowSpec == InitDialog /\ [][FlowNext]_vars

(***************************************************************************)
(* Properties.                                                             *)
(***************************************************************************)
Returned == pc = "returned"

\* the requests and responses of the call, by position
Answered == 1..Len(responses)

\* the key by which two records are the same post: the link, else the body
DedupKey(m) ==
    IF Truthy(m._link) THEN <<"link", m._link.s>>
    ELSE <<"body", _norm_basic(_body_from_item(m.item))>>

\* C1: no two records of the returned matches share a dedup key (the link, or
\* the body when there is no link); a post the provider returns for two seeds
\* is in matches once.
C1_NoSharedDedupKey ==
    Returned =>
        \A i, j \in 1..Len(matched) : i < j => DedupKey(matched[i]) # DedupKey(matched[j])

\* C2: without a token a call with at least one seed fails with an error that
\* reaches the caller, and no request is sent.
C2_MissingTokenIsFatal ==
    (~TELEM_TOKEN /\ pc # "idle" /\ seeds_raw # <<>>) => (pc = "raised" /\ requests = <<>>)

\* the request at position k follows the one before it: the next page of the
\* same seed after a full page, or page 1 of the next seed
FollowsInOrder(k) ==
    IF k = 1
    THEN requests[1].seed = 1 /\ requests[1].params.page = 1
    ELSE \/ /\ requests[k].seed = requests[k - 1].seed
            /\ requests[k].params.page = requests[k - 1].params.page + 1
            /\ responses[k - 1].kind = "items"
            /\ responses[k - 1].size >= PageLimit
         \/ /\ requests[k].seed = requests[k - 1].seed + 1
            /\ requests[k].params.page = 1

\* after a full page below the page budget the next page of the seed is requested
ContinuesAfterFullPage(k) ==
    (/\ responses[k].kind = "items"
     /\ responses[k].size >= PageLimit
     /\ requests[k].params.page < TELEM_PAGES)
        => /\ Len(requests) > k
           /\ requests[k + 1].seed = requests[k].seed
           /\ requests[k + 1].params.page = requests[k].params.page + 1

\* C3: the pages of a seed are requested in the order 1, 2, 3, ..., the next
\* one exactly when the page before it came back full and was not page
\* TELEM_PAGES; so no request follows a page with fewer than 50 items, and no
\* seed has more than TELEM_PAGES requests.
C3_PaginationStops ==
    /\ \A k \in 1..Len(requests) :
           /\ requests[k].params.page \in 1..TELEM_PAGES
           /\ FollowsInOrder(k)
    /\ \A k \in Answered : ContinuesAfterFullPage(k)

\* C3 witness: seed 1 got a full page 1 and a short page 2, and the call went
\* on to seed 2 without a page 3
C3_Witness ==
    /\ Len(requests) >= 3
    /\ responses[1].size >= PageLimit
    /\ requests[2].seed = 1
    /\ responses[2].kind = "items"
    /\ responses[2].size < PageLimit
    /\ requests[3].seed = 2

\* C4: when a page request fails with an exception, the call does not raise:
\* it requests page 1 of the next seed, or returns when the seed was the last.
C4_TransportErrorStopsOnlyItsSeed ==
    \A k \in Answered :
        (responses[k].kind = "transport_error" /\ Len(responses) = k) =>
            IF requests[k].seed < Len(seeds_raw)
            THEN /\ pc = "fetching"
                 /\ Len(requests) = k + 1
                 /\ requests[k + 1].seed = requests[k].seed + 1
                 /\ requests[k + 1].params.page = 1
            ELSE Returned

\* C5: a protocol error is recorded in the diagnostics like a transport
\* error, with a line naming the seed and the page.
C5_ProtocolErrorRecorded ==
    Returned =>
        \A k \in Answered :
            responses[k].kind = "protocol_error" =>
                \E n \in 1..Len(diag) :
                    /\ diag[n].kind = "fetch_error"
                    /\ diag[n].seed = seeds_raw[requests[k].seed]
                    /\ diag[n].page = requests[k].params.page

\* the items of seed i, mappings (the empty mapping among them) and strings,
\* whose views meet TELEM_MIN_VIEWS and whose body is empty
EmptyBodyCandidates(i) ==
    {d \in {_as_dict(fetched_log[i][j]) :
                j \in {k \in 1..Len(fetched_log[i]) : fetched_log[i][k].shape # "other"}} :
        PassesViews(d) /\ ~BodyRaises(d) /\ _body_from_item(d) = <<>>}

InMatches(i, d) ==
    \E n \in 1..Len(matched) : matched[n].item = d /\ matched[n]._seed = seeds_raw[i]

\* C6: an item that passes the view filter and has an empty body is in the
\* returned matches exactly when TELEM_TRUST_QUERY is on, whatever the other
\* toggles are, TELEM_REQUIRE_EXACT off included.
C6_EmptyBodyIffTrust ==
    Returned =>
        \A i \in 1..Len(fetched_log) : \A d \in EmptyBodyCandidates(i) :
            InMatches(i, d) <=> TELEM_TRUST_QUERY

\* a Latin or Cyrillic letter or a digit
IsLetterOrDigit(c) == IsAsciiDigit(c) \/ c \in {"a", "b", "c", "A", CyrI}

\* n occurs in h at position i as a whole word or phrase
OccursAsWordAt(n, h, i) ==
    /\ i + Len(n) - 1 <= Len(h)
    /\ SubSeq(h, i, i + Len(n) - 1) = n
    /\ (i > 1 => ~IsLetterOrDigit(h[i - 1]))
    /\ (i + Len(n) <= Len(h) => ~IsLetterOrDigit(h[i + Len(n)]))

\* C7: with TELEM_REQUIRE_EXACT on, the normalised seed of every returned
\* record with a body occurs in the normalised body between string edges or
\* characters that are no Latin or Cyrillic letter or digit, never only inside
\* a longer word.
C7_StrictMatchIsWordBounded ==
    (Returned /\ TELEM_REQUIRE_EXACT) =>
        \A n \in 1..Len(matched) :
            LET body == _norm_basic(_body_from_item(matched[n].item))
                seed == _norm_basic(matched[n]._seed)
            IN  body # <<>> => \E i \in 1..Len(body) : OccursAsWordAt(seed, body, i)

\* the words of a normalised text: its maximal runs of letters, digits and "_"
RECURSIVE Tokens(_, _)
Tokens(s, word) ==
    IF s = <<>> THEN (IF word = <<>> THEN {} ELSE {word})
    ELSE IF IsLetterOrDigit(Head(s)) \/ Head(s) = "_"
         THEN Tokens(Tail(s), Append(word, Head(s)))
         ELSE (IF word = <<>> THEN {} ELSE {word}) \cup Tokens(Tail(s), <<>>)

SharesToken(seed, body) ==
    Tokens(_norm_basic(seed), <<>>) \cap Tokens(_norm_basic(body), <<>>) # {}

\* C8: with TELEM_REQUIRE_EXACT off, a record is accepted only if the boundary
\* check succeeds or seed and body share tokens; a record whose body shares no
\* token with the seed is not in matches.
C8_FuzzyNeedsOverlap ==
    (Returned /\ ~TELEM_REQUIRE_EXACT) =>
        \A n \in 1..Len(matched) :
            LET body == _body_from_item(matched[n].item)
            IN  \/ _contains_exact_phrase_word_boundary(matched[n]._seed, body)
                \/ SharesToken(matched[n]._seed, body)

\* C9: every record of matches has at least TELEM_MIN_VIEWS views.
C9_MatchesMeetMinViews ==
    \A n \in 1..Len(matched) : _views_of(matched[n].item) >= TELEM_MIN_VIEWS

\* C9 witness: with a threshold of 1000 the provider returned a post with 500
\* views among accepted ones, and the call returned
C9_Witness ==
    /\ Returned
    /\ TELEM_MIN_VIEWS = 1000
    /\ matched # <<>>
    /\ \E i \in 1..Len(fetched_log) : \E j \in 1..Len(fetched_log[i]) :
           fetched_log[i][j] = LowViews

\* order of the date strings (zero-padded, so the order of the number triples)
DateLeq(a, b) ==
    \/ a[1] < b[1]
    \/ a[1] = b[1] /\ a[2] < b[2]
    \/ a[1] = b[1] /\ a[2] = b[2] /\ a[3] <= b[3]

\* C10: every request carries date_from <= date_to, also when the caller
\* passed since later than until.
C10_RequestDatesOrdered ==
    \A k \in 1..Len(requests) :
        DateLeq(requests[k].params.date_from, requests[k].params.date_to)

\* every seed of the argument is empty after trimming (or there is none)
NoSeedSupplied == \A i \in 1..Len(seeds) : Strip(seeds[i]) = <<>>

\* C11: a call whose seed list is empty, or holds only seeds that are empty
\* after trimming, returns no matches and the one-line text saying that there
\* are no phrases, sends no request and creates no session.
C11_NoSeedsNoRequests ==
    (pc # "idle" /\ NoSeedSupplied) =>
        /\ result = Result(<<>>, <<NoSeedsText>>)
        /\ Returned
        /\ requests = <<>>
        /\ session_log = <<>>
        /\ session = "none"

\* C11 witness: a call with one blank seed has returned
C11_Witness == Returned /\ seeds = <<SeedBlank>> /\ result.meta.lines = <<NoSeedsText>>

\* how often the event e is in the session history
Times(e) == Cardinality({i \in 1..Len(session_log) : session_log[i] = e})

\* the call is over: it returned, raised or was cancelled
CallOver == pc \in {"returned", "raised", "cancelled"}

\* C12: a call without a session of the caller creates a session at most
\* once; a session it created is closed exactly once when the call is over,
\* however it ended, and not before; and no request is sent on a session
\* after its close.
C12_SessionClosedOnce ==
    /\ Times("create") <= 1
    /\ Times("create") = 1 => session_log[1] = "create"
    /\ Times("create") = 0 => session_log = <<>> /\ session = "none"
    /\ (CallOver /\ Times("create") = 1) =>
           /\ Times("close") = 1
           /\ session_log[Len(session_log)] = "close"
           /\ session = "closed"
    /\ ~CallOver => Times("close") = 0
    /\ \A i, j \in 1..Len(session_log) :
           (i < j /\ session_log[i] = "close") => session_log[j] # "get"

\* C12 witness: a call was cancelled on the second request of its session,
\* which is closed
C12_Witness ==
    /\ pc = "cancelled"
    /\ session_log = <<"create", "get", "get", "close">>

\* C12 witness of the other exits: without a token the call returned and closed
\* its session, which no request had used
C12_WitnessNoToken ==
    /\ Returned
    /\ ~TELEM_TOKEN
    /\ session_log = <<"create", "close">>

\* C13: a raw item, whatever its shape and the types of its fields, never
\* makes the call raise: a call raises only when a response had no list of
\* items at all.
C13_NoItemMakesCallRaise ==
    pc = "raised" => \E k \in Answered : responses[k].kind = "items_not_sized"

\* the lines of the returned diagnostics that carry the counts of a seed
SeedLines ==
    LET IsSeedLine(l) == l.kind = "seed"
    IN  SelectSeq(result.meta.lines, IsSeedLine)

\* the raw items of seed i that are neither a mapping nor a string
NeitherMappingNorString(i) ==
    {j \in 1..Len(fetched_log[i]) : fetched_log[i][j].shape = "other"}

\* C14: the malformed count of each seed's diagnostics line is the number of
\* its fetched raw items that are neither a mapping nor a string; an empty
\* mapping and an empty string are not counted.
C14_MalformedCountsOtherShapes ==
    (Returned /\ seeds_raw # <<>>) =>
        \A i \in 1..Len(SeedLines) :
            SeedLines[i].counts[2] = Cardinality(NeitherMappingNorString(i))

\* int() accepts the value
IsParseableInt(v) == v.t = "int" \/ (v.t = "str" /\ IsIntLiteral(Strip(v.s)))

\* the first parseable integer among views, views_count, else 0
FirstParseableViews(it) ==
    IF IsParseableInt(it.views) THEN IntOrZero(it.views)
    ELSE IF IsParseableInt(it.views_count) THEN IntOrZero(it.views_count)
    ELSE 0

\* C15: the views of every normalised item the call works on is the first
\* parseable integer among its fields views and views_count, in that order,
\* and 0 when neither parses.
C15_ViewsIsFirstParseable ==
    \A i \in 1..Len(fetched_log) : \A j \in 1..Len(fetched_log[i]) :
        LET d == _as_dict(fetched_log[i][j])
        IN  ~IsEmptyDict(d) => _views_of(d) = FirstParseableViews(d)

\* a page request of seed i raised: there is no token, or the request failed
FetchFailed(i) ==
    \/ ~TELEM_TOKEN
    \/ \E k \in Answered : requests[k].seed = i /\ responses[k].kind = "transport_error"

\* the records of matches found for seed i
MatchesOfSeed(i) ==
    LET OfSeed(m) == m._seed = seeds_raw[i]
    IN  SelectSeq(result.found, OfSeed)

\* line l carries the counts of seed i: what was fetched and what matched
IsLineOfSeed(l, i) ==
    /\ l.kind = "seed"
    /\ l.seed = seeds_raw[i]
    /\ l.counts[1] = Len(fetched_log[i])
    /\ l.counts[4] = Len(MatchesOfSeed(i))

\* C16 as stated: the diagnostics of a call with n >= 1 seeds that returns are
\* n + 2 lines: the policy line, one line per seed in seed order with the
\* seed's counts, the totals line; also when page requests fail.
C16_DiagnosticsHasNPlus2Lines ==
    (Returned /\ seeds_raw # <<>>) =>
        LET lines == result.meta.lines
            n == Len(seeds_raw)
        IN  /\ Len(lines) = n + 2
            /\ lines[1].kind = "policy"
            /\ \A i \in 1..n : IsLineOfSeed(lines[i + 1], i)
            /\ lines[n + 2].kind = "totals"

\* the entries of the diagnostics between the policy line and the totals:
\* for each seed from i on, its error line if a request failed, then its line
RECURSIVE SeedEntries(_)
SeedEntries(i) ==
    IF i > Len(seeds_raw) THEN <<>>
    ELSE (IF FetchFailed(i) THEN <<[kind |-> "fetch_error", of |-> i]>> ELSE <<>>)
         \o <<[kind |-> "seed", of |-> i]>> \o SeedEntries(i + 1)

\* line l is the entry e
IsEntry(l, e) ==
    IF e.kind = "seed" THEN IsLineOfSeed(l, e.of)
    ELSE l.kind = "fetch_error" /\ l.seed = seeds_raw[e.of]

\* the sample_links entry is written: debug is on and one of the first ten
\* matches has a link
HasSampleLinks ==
    /\ ORGANIC_DEBUG
    /\ \E n \in 1..Len(result.found) : n <= 10 /\ Truthy(result.found[n]._link)

\* C16 amended: the diagnostics of a call with n >= 1 seeds that returns are
\* the policy line; then for each seed in seed order one error line if a page
\* request of the seed raised, and one line with the seed's counts; then the
\* totals line; then the sample_links entry if debug is on and one of the
\* first ten matches has a link.
C16_DiagnosticsStructure ==
    (Returned /\ seeds_raw # <<>>) =>
        LET lines == result.meta.lines
            body == SeedEntries(1)
            m == Len(body)
        IN  /\ Len(lines) = m + 2 + (IF HasSampleLinks THEN 1 ELSE 0)
            /\ lines[1].kind = "policy"
            /\ \A j \in 1..m : IsEntry(lines[j + 1], body[j])
            /\ lines[m + 2].kind = "totals"
            /\ lines[m + 2].counts[2] = Len(result.found)
            /\ HasSampleLinks => lines[m + 3].kind = "sample_links"

\* C16 witness: a call with two seeds returned, the request of the first seed
\* failed, and the diagnostics end with sample links: 2 + 2 + 1 + 1 entries
C16_Witness ==
    /\ Returned
    /\ Len(seeds_raw) = 2
    /\ FetchFailed(1)
    /\ ~FetchFailed(2)
    /\ HasSampleLinks
    /\ Len(result.meta.lines) = 6

\* a seed without the double quotes the user wrapped it in
Unquoted(seed) ==
    IF IsQuoted(seed) /\ Len(seed) >= 2 THEN SubSeq(seed, 2, Len(seed) - 1) ELSE seed

\* the normalised items of seed i that pass the view filter and have a body
BodyCandidates(i) ==
    {d \in {_as_dict(fetched_log[i][j]) : j \in 1..Len(fetched_log[i])} :
        ~IsEmptyDict(d) /\ PassesViews(d) /\ ~BodyRaises(d) /\ _body_from_item(d) # <<>>}

\* C17: the query of every request is the trimmed seed, wrapped in double
\* quotes when TELEM_USE_QUOTES is on and the seed is not quoted already; the
\* seed tag of every record and strict matching use the seed without quotes,
\* so a seed the user wrapped in quotes matches the bodies that hold the
\* phrase itself.
C17_LocalSeedIsUnquoted ==
    /\ \A k \in 1..Len(requests) :
           LET seed == seeds_raw[requests[k].seed]
           IN  requests[k].params.query =
                   IF TELEM_USE_QUOTES /\ ~IsQuoted(seed)
                   THEN <<Quote>> \o seed \o <<Quote>>
                   ELSE seed
    /\ \A n \in 1..Len(matched) : ~IsQuoted(matched[n]._seed)
    /\ (Returned /\ TELEM_REQUIRE_EXACT) =>
           \A i \in 1..Len(fetched_log) : \A d \in BodyCandidates(i) :
               _contains_exact_phrase_word_boundary(Unquoted(seeds_raw[i]), _body_from_item(d))
                   => \E n \in 1..Len(matched) : matched[n].item = d

\* the position in seeds_raw of the seed a record is tagged with
SeedIndex(m) == CHOOSE i \in 1..Len(seeds_raw) : seeds_raw[i] = m._seed

\* the fetched items of seed i, normalised, in the order the provider gave
\* them (page after page), restricted to those returned as matches of seed i
FetchedAndMatched(i) ==
    LET InFound(d) ==
            \E n \in 1..Len(result.found) :
                result.found[n].item = d /\ result.found[n]._seed = seeds_raw[i]
    IN  SelectSeq([j \in 1..Len(fetched_log[i]) |-> _as_dict(fetched_log[i][j])], InFound)

\* C18: the returned matches are in seed order, and the matches of one seed
\* in the order the provider returned their items; the per-seed lines of the
\* diagnostics are in seed order.
C18_MatchesInSeedThenItemOrder ==
    (Returned /\ seeds_raw # <<>>) =>
        /\ \A a, b \in 1..Len(result.found) :
               a < b => SeedIndex(result.found[a]) <= SeedIndex(result.found[b])
        /\ \A i \in 1..Len(seeds_raw) :
               [n \in 1..Len(MatchesOfSeed(i)) |-> MatchesOfSeed(i)[n].item] = FetchedAndMatched(i)
        /\ Len(SeedLines) = Len(seeds_raw)
        /\ \A i \in 1..Len(seeds_raw) : SeedLines[i].seed = seeds_raw[i]

\* C18 witness: both seeds of a call have matches, and the first seed has two
\* different ones
C18_Witness ==
    /\ Returned
    /\ Len(seeds_raw) = 2
    /\ Len(MatchesOfSeed(1)) >= 2
    /\ MatchesOfSeed(1)[1] # MatchesOfSeed(1)[2]
    /\ Len(MatchesOfSeed(2)) >= 1

\* C19: a call cancelled while a page request is in flight gives its caller
\* nothing, neither the matches nor the diagnostics it had accumulated, and
\* from then on sends no request and returns no result.
C19_CancelYieldsNothing ==
    \A k \in Answered :
        responses[k].kind = "cancelled" =>
            /\ result = NoResult
            /\ ~Returned
            /\ Len(responses) = k
            /\ Len(requests) = k

\* C19 witness: the call is cancelled during the request of its second seed,
\* with matches and diagnostics of the first seed accumulated
C19_Witness ==
    /\ pc = "cancelled"
    /\ \E k \in Answered : responses[k].kind = "cancelled"
    /\ idx = 2
    /\ matched # <<>>
    /\ Len(diag) = 2
    /\ result = NoResult

\* C20: when the search handle_phrases awaited returned normally, the handler
\* took the success path: it answered with the summary and then with the
\* cards or with the notice that nothing was found; the search error is
\* answered only when search_telemetr raised.
C20_ReturnedSearchIsReported ==
    awaited = "returned" => (sent # <<>> /\ sent[1] = "summary")

\* a request of seed i for a page after the first failed with an exception
FailedAfterFirstPage(i) ==
    \E k \in Answered :
        /\ requests[k].seed = i
        /\ requests[k].params.page > 1
        /\ responses[k].kind = "transport_error"

\* the number of items the provider returned for seed i in its first k answers
RECURSIVE ItemsReceivedUpTo(_, _)
ItemsReceivedUpTo(i, k) ==
    IF k = 0 THEN 0
    ELSE ItemsReceivedUpTo(i, k - 1)
         + (IF requests[k].seed = i /\ responses[k].kind = "items" THEN responses[k].size ELSE 0)

\* the number of items the provider returned for seed i, over all its pages
ItemsReceived(i) == ItemsReceivedUpTo(i, Len(responses))

\* the positions of the fetched items of seed i that pass normalisation, the
\* view filter and the matching of the seed
AcceptedOfSeed(i) ==
    {j \in 1..Len(fetched_log[i]) :
        LET d == _as_dict(fetched_log[i][j])
        IN  ~IsEmptyDict(d) /\ PassesViews(d) /\ Accepts(seeds_raw[i], d)}

\* C22: when a request for page k > 1 of a seed failed with an exception and
\* the call returned, the items of the seed's pages 1..k-1 were kept: the
\* seed's diagnostics line counts all of them as fetched, every one of them
\* that passes normalisation, the view filter and the matching is among the
\* returned matches under the seed's tag, and the line's matched count is
\* their number.
C22_EarlierPagesKept ==
    Returned =>
        \A i \in 1..Len(seeds_raw) :
            FailedAfterFirstPage(i) =>
                /\ ItemsReceived(i) >= PageLimit
                /\ Len(fetched_log[i]) = ItemsReceived(i)
                /\ SeedLines[i].seed = seeds_raw[i]
                /\ SeedLines[i].counts[1] = ItemsReceived(i)
                /\ SeedLines[i].counts[4] = Cardinality(AcceptedOfSeed(i))
                /\ Len(MatchesOfSeed(i)) = Cardinality(AcceptedOfSeed(i))
                /\ \A j \in AcceptedOfSeed(i) :
                       \E n \in 1..Len(result.found) :
                           /\ result.found[n].item = _as_dict(fetched_log[i][j])
                           /\ result.found[n]._seed = seeds_raw[i]

\* C22 witness: the request for page 2 of the first seed failed after a full
\* first page, the call returned, and a post of that page is among the matches
\* while others of the page are not
C22_Witness ==
    /\ Returned
    /\ FailedAfterFirstPage(1)
    /\ SeedLines[1].counts[1] = PageLimit
    /\ Len(MatchesOfSeed(1)) >= 1
    /\ Len(MatchesOfSeed(1)) < PageLimit

\* C23: a session the caller passed to the call is the session of every page
\* request of the call, and the call neither replaces it by a session of its
\* own nor closes it, whether the call is in progress, returned, raised or
\* was cancelled.
C23_CallerSessionStaysOpen ==
    /\ session = "open"
    /\ ~own_session
    /\ Times("create") = 0
    /\ Times("close") = 0
    /\ Times("get") = Len(requests)

\* C23 witness: a call on the caller's session was cancelled during its second
\* request, and the session is open
C23_Witness ==
    /\ pc = "cancelled"
    /\ session = "open"
    /\ session_log = <<"get", "get">>

\* C23 witness of the other exits: a call on the caller's session raised
C23_WitnessRaised ==
    /\ pc = "raised"
    /\ session = "open"
    /\ Len(requests) >= 1

\* C23 witness of the other exits: a call on the caller's session returned
\* after two requests
C23_WitnessReturned ==
    /\ Returned
    /\ session = "open"
    /\ Len(requests) = 2

\* this step resumes the i-th handler in progress, a handle_phrases suspended
\* in its status answer: it invokes search_telemetr
SearchInvokedBy(i) ==
    /\ tasks[i].handler = "handle_phrases"
    /\ tasks[i].at = "answer"
    /\ Len(tasks') = Len(tasks)
    /\ tasks'[i].at # "answer"

\* this step ends a handler that invoked the search
SearchHandlerEnds ==
    \E i \in 1..Len(tasks) :
        /\ tasks[i].handler = "handle_phrases"
        /\ tasks[i].at # "answer"
        /\ tasks' = Resumed(i)

\* search_telemetr is invoked only in state waiting_for_phrases, with the
\* dates the dialog has stored
C21_SearchOnlyWhenWaitingForPhrases ==
    [][\A i \in 1..Len(tasks) :
          SearchInvokedBy(i) =>
              /\ state = "waiting_for_phrases"
              /\ data.stored
              /\ tasks[i].since = data.start_date
              /\ tasks[i].until = data.end_date]_vars

\* the state waiting_for_phrases is entered with a date range stored
C21_WaitingForPhrasesHasDates ==
    [][(state # "waiting_for_phrases" /\ state' = "waiting_for_phrases") => data'.stored]_vars

\* the handler that awaited the search leaves no state and no dates, however
\* the search ended
C21_SearchClearsDialog ==
    [][SearchHandlerEnds => (state' = "none" /\ data' = NoData)]_vars

\* the answer that no phrase was seen comes with the state and the data unchanged
C21_NoPhrasesChangesNothing ==
    [][(sent' = <<"no_phrases">> /\ sent' # sent) => UNCHANGED <<state, data>>]_vars

\* C21: over any messages of the user, search_telemetr is invoked only in
\* state waiting_for_phrases and with the stored date range; that state is
\* entered only with a date range stored by handle_dates; when handle_phrases
\* has handled a message with a phrase, the state and the dates are cleared
\* however the search ended, so that a second search needs a new date range;
\* and a message without phrases changes neither the state nor the dates.
C21_DialogDiscipline ==
    /\ C21_SearchOnlyWhenWaitingForPhrases
    /\ C21_WaitingForPhrasesHasDates
    /\ C21_SearchClearsDialog
    /\ C21_NoPhrasesChangesNothing

====
